---- MODULE Spec2Model ----
(***************************************************************************)
(* Model of async.backbone.validation.js (Backbone.Validation 0.8.0 with   *)
(* deferred validators).                                                   *)
(*                                                                         *)
(* JavaScript values are records tagged by their type.  An object is an    *)
(* ordered list of <<key, value>> pairs (own enumerable properties, in     *)
(* insertion order).  A string that the validators inspect is a sequence   *)
(* of characters; a message is a string made of text chunks.               *)
(*                                                                         *)
(* $.Deferred is modelled with synchronous callback dispatch: resolve()    *)
(* and reject() run the handlers registered with then() before they        *)
(* return, and are ignored on a deferred that has already settled.  One    *)
(* action of the model is therefore one turn of the event loop: the call   *)
(* of an operation, the later settlement of a handle by a validator that   *)
(* deferred its answer, or the run of a function queued with _.defer.      *)
(***************************************************************************)
EXTENDS Integers, Sequences, FiniteSets, TLC

VARIABLES
    validation,   \* model.validation: the rule declaration, or Undefined
    attributes,   \* model.attributes
    _isValid,     \* model._isValid
    runs,         \* the calls of validate / preValidate / isValid made so far
    timers,       \* functions queued by _.defer, oldest first
    turn,         \* the number of turns of the event loop taken so far
    log           \* what has happened, in order, each event with its turn

vars == <<validation, attributes, _isValid, runs, timers, turn, log>>

-----------------------------------------------------------------------------
(* Bounds of the model *)

\* longest list of descriptors declared for one attribute
MaxDescriptors == 2

\* longest string value
MaxStrLen == 2

-----------------------------------------------------------------------------
(* JavaScript values *)

Undefined == [t |-> "undefined"]
Null == [t |-> "null"]
Bool(b) == [t |-> "boolean", b |-> b]
Num(n) == [t |-> "number", n |-> n]
Str(s) == [t |-> "string", s |-> s]
Fun(f) == [t |-> "function", f |-> f]
Obj(p) == [t |-> "object", p |-> p]
Arr(a) == [t |-> "array", a |-> a]

isString(v) == v.t = "string"
isFunction(v) == v.t = "function"
isNull(v) == v.t = "null"
isUndefined(v) == v.t = "undefined"
\* ToBoolean, as used by `a || b`, `!a` and `if (a)`
truthy(v) ==
    CASE v.t = "undefined" -> FALSE
      [] v.t = "null" -> FALSE
      [] v.t = "boolean" -> v.b
      [] v.t = "number" -> v.n # 0
      [] v.t = "string" -> v.s # <<>>
      [] OTHER -> TRUE

(* Objects as ordered lists of pairs *)

keys(p) == [i \in 1..Len(p) |-> p[i][1]]
hasOwnProperty(p, k) == \E i \in 1..Len(p) : p[i][1] = k
get(p, k) ==
    IF hasOwnProperty(p, k)
    THEN p[CHOOSE i \in 1..Len(p) : p[i][1] = k][2]
    ELSE Undefined
\* p[k] = v: an existing key keeps its place, a new key goes last
put(p, k, v) ==
    IF hasOwnProperty(p, k)
    THEN [i \in 1..Len(p) |-> IF p[i][1] = k THEN <<k, v>> ELSE p[i]]
    ELSE Append(p, <<k, v>>)

RECURSIVE extend(_, _)
\* _.extend(dst, src)
extend(dst, src) ==
    IF src = <<>> THEN dst
    ELSE extend(put(dst, Head(src)[1], Head(src)[2]), Tail(src))

RECURSIVE without(_, _)
\* _.without(list, x)
without(list, x) ==
    IF list = <<>> THEN <<>>
    ELSE IF Head(list) = x THEN without(Tail(list), x)
         ELSE <<Head(list)>> \o without(Tail(list), x)

Range(s) == {s[i] : i \in 1..Len(s)}

-----------------------------------------------------------------------------
(* Helper functions *)

RECURSIVE join(_)
\* concatenation of text chunks
join(chunks) == IF chunks = <<>> THEN "" ELSE Head(chunks) \o join(Tail(chunks))

\* '{n}' placeholders, as chunks of a message template
placeholder(chunk) ==
    CASE chunk = "{0}" -> 0
      [] chunk = "{1}" -> 1
      [] chunk = "{2}" -> 2
      [] OTHER -> -1

\* formatFunctions.format: text is a template given as chunks, args the
\* values for its placeholders; a placeholder without argument stays
format(text, args) ==
    Str(<<join([i \in 1..Len(text) |->
        IF placeholder(text[i]) >= 0 /\ placeholder(text[i]) < Len(args)
        THEN args[placeholder(text[i]) + 1]
        ELSE text[i]])>>)

\* defaultLabelFormatters.sentenceCase on the attribute names of this model:
\* the first character in upper case, a blank before every later word start
sentenceCase(attrName) ==
    CASE attrName = "a" -> "A"
      [] attrName = "b" -> "B"
      [] attrName = "a.x" -> "A. x"
      [] attrName = "b.x" -> "B. x"
      [] OTHER -> attrName

\* formatFunctions.formatLabel with defaultOptions.labelFormatter = 'sentenceCase'
formatLabel(attrName, model) == sentenceCase(attrName)

\* typeof val === 'object'
typeofObject(val) ==
    val.t \in {"object", "array", "null", "date", "regexp", "model", "collection"}

\* a test that knows dates only
isOpaqueDateOnly(val) == val.t = "date"

\* val instanceof Date || RegExp || Backbone.Model || Backbone.Collection
isOpaque(val) == val.t \in {"date", "regexp", "model", "collection"}

\* the key _.each gives for the element at position n of an array
indexKey(n) ==
    CASE n = 1 -> "0" [] n = 2 -> "1" [] n = 3 -> "2" [] OTHER -> "n"

\* the <<key, value>> pairs _.each(val, ...) visits: the own properties of an
\* object, the elements of an array under their index; the other values of
\* the model have no enumerable property
eachOf(val) ==
    CASE val.t = "object" -> val.p
      [] val.t = "array" -> [n \in DOMAIN val.a |-> <<indexKey(n), val.a[n]>>]
      [] OTHER -> <<>>

RECURSIVE flatten(_, _, _)
\* flatten(obj, into, prefix), obj and into given as lists of pairs
flatten(obj, into, prefix) ==
    IF obj = <<>> THEN into
    ELSE LET key == Head(obj)[1]
             val == Head(obj)[2]
             into1 == IF truthy(val) /\ typeofObject(val) /\ ~isOpaque(val)
                      THEN flatten(eachOf(val), into, prefix \o key \o ".")
                      ELSE put(into, prefix \o key, val)
         IN flatten(Tail(obj), into1, prefix)

-----------------------------------------------------------------------------
(* Built in validators *)

\* the characters the model tells apart
Blank == " "

RECURSIVE trimLeft(_)
trimLeft(s) ==
    IF s # <<>> /\ Head(s) = Blank THEN trimLeft(Tail(s)) ELSE s

RECURSIVE trimRight(_)
trimRight(s) ==
    IF s # <<>> /\ s[Len(s)] = Blank THEN trimRight(SubSeq(s, 1, Len(s) - 1)) ELSE s

\* String(value) for the values of the model
toString(value) ==
    CASE value.t = "string" -> value.s
      [] value.t = "undefined" -> <<"u", "n", "d", "e", "f", "i", "n", "e", "d">>
      [] value.t = "null" -> <<"n", "u", "l", "l">>
      [] OTHER -> <<"[", "o", "b", "j", "e", "c", "t", " ", "O", "b", "j", "e", "c", "t", "]">>

\* trim(text): '' for null, else the text without leading and trailing blanks
trim(text) ==
    IF isNull(text) THEN <<>> ELSE trimRight(trimLeft(toString(text)))

hasValue(value) ==
    ~(isNull(value) \/ isUndefined(value) \/ (isString(value) /\ trim(value) = <<>>))

\* defaultMessages
defaultMessages ==
    [required |-> <<"{0}", " is required">>,
     minLength |-> <<"{0}", " must be at least ", "{1}", " characters">>,
     equalTo |-> <<"{0}", " must be the same as ", "{1}">>]

\* what a call of a validator does with its result handle
Resolves == [b |-> "resolve", msg |-> Undefined]
Rejects(message) == [b |-> "reject", msg |-> message]
Throws == [b |-> "throw", msg |-> Undefined]
Defers == [b |-> "defer", msg |-> Undefined]

\* the number a minLength parameter stands for, as text
numText(n) ==
    CASE n = 0 -> "0" [] n = 1 -> "1" [] n = 2 -> "2" [] n = 3 -> "3" [] OTHER -> "n"

\* defaultValidators.required, for a parameter that is no function
required(value, attr, req, model, computed) ==
    LET isRequired == truthy(req)
    IN IF ~isRequired /\ ~hasValue(value) THEN Resolves
       ELSE IF isRequired /\ ~hasValue(value)
            THEN Rejects(format(defaultMessages.required, <<formatLabel(attr, model)>>))
            ELSE Resolves

\* defaultValidators.minLength
minLength(value, attr, minLen, model) ==
    IF ~hasValue(value) \/ Len(trim(value)) < minLen.n
    THEN Rejects(format(defaultMessages.minLength,
                        <<formatLabel(attr, model), numText(minLen.n)>>))
    ELSE Resolves

\* defaultValidators.equalTo; equalTo is the name of the other attribute, and
\* the values compared with !== are primitives
equalTo(value, attr, equalTo_, model, computed) ==
    IF value # get(computed, join(equalTo_.s))
    THEN Rejects(format(defaultMessages.equalTo,
                        <<formatLabel(attr, model), formatLabel(join(equalTo_.s), model)>>))
    ELSE Resolves

\* the custom functions a declaration can name, and the methods of the model
CustomFns == {"custom"}
Methods == {"check"}

\* model[name]
method(model, name) == IF name \in Methods THEN Fun(name) ELSE Undefined

\* What a custom function does when called is its own business: `does` is
\* the choice it makes at this call.  Calling something that is no function
\* raises a TypeError.
\* defaultValidators.fn
fn(value, attr, f, model, computed, does) ==
    LET g == IF isString(f) THEN method(model, join(f.s)) ELSE f
    IN IF isFunction(g) THEN does ELSE Throws

\* the names defaultValidators has a function for
ValidatorNames ==
    {"fn", "required", "acceptance", "min", "max", "range", "length", "minLength",
     "maxLength", "rangeLength", "oneOf", "equalTo", "pattern"}

\* defaultValidators[validator]
defaultValidators(validator) ==
    IF validator \in ValidatorNames THEN Fun(validator) ELSE Undefined

-----------------------------------------------------------------------------
(* Validation *)

\* getValidatedAttrs(model)
getValidatedAttrs(model) ==
    LET ks == IF truthy(model.validation) THEN keys(model.validation.p) ELSE <<>>
    IN [i \in 1..Len(ks) |-> <<ks[i], Undefined>>]

\* the descriptors of one entry, the reserved key msg taken for a validator
descriptorsOfEveryKey(attrValidation) ==
    LET names == keys(attrValidation.p)
    IN [i \in 1..Len(names) |->
          [fn |-> defaultValidators(names[i]),
           val |-> get(attrValidation.p, names[i]),
           msg |-> get(attrValidation.p, "msg")]]

\* the descriptors of one entry of a rule declaration
descriptorsOf(attrValidation) ==
    LET names == without(keys(attrValidation.p), "msg")
    IN [i \in 1..Len(names) |->
          [fn |-> defaultValidators(names[i]),
           val |-> get(attrValidation.p, names[i]),
           msg |-> get(attrValidation.p, "msg")]]

RECURSIVE reduceValidators(_, _)
reduceValidators(attrValidationSet, memo) ==
    IF attrValidationSet = <<>> THEN memo
    ELSE reduceValidators(Tail(attrValidationSet),
                          memo \o descriptorsOf(Head(attrValidationSet)))

\* getValidators(model, attr)
getValidators(model, attr) ==
    LET declared == IF truthy(model.validation)
                    THEN get(model.validation.p, attr)
                    ELSE Undefined
        set0 == IF truthy(declared) THEN declared ELSE Obj(<<>>)
        set1 == IF isFunction(set0) \/ isString(set0)
                THEN Obj(<< <<"fn", set0>> >>)
                ELSE set0
        set2 == IF set1.t = "array" THEN set1.a ELSE <<set1>>
    IN reduceValidators(set2, <<>>)

-----------------------------------------------------------------------------
(* The state one turn works on: the call it belongs to (run, with its      *)
(* number id) and the shared state the handlers read and write.            *)

\* the model object, as the code reads it
Model == [validation |-> validation, attributes |-> attributes]

Event(e, st, attr, k, out, msg) ==
    [e |-> e, run |-> st.id, turn |-> st.turn, attr |-> attr, k |-> k, out |-> out,
     msg |-> msg]

Logged(st, e, attr, k, out, msg) ==
    [st EXCEPT !.log = Append(@, Event(e, st, attr, k, out, msg))]

\* the messages a custom function rejects with
CustomMessage == Str(<<"custom check failed">>)

\* what a custom function may do when it is called
Behaviours == {Resolves, Rejects(CustomMessage), Throws, Defers}

\* _.intersection(_.keys(a), _.keys(b)).length > 0
keysIntersect(a, b) == Range(keys(a)) \cap Range(keys(b)) # {}

RECURSIVE eachValid(_, _, _)
\* one loop that announces every attribute, valid or invalid, as it comes
eachValidOrInvalid(st, result, todo) ==
    IF todo = <<>> THEN st
    ELSE LET attr == Head(todo)[1]
             invalid == hasOwnProperty(result.invalidAttrs, attr)
             st1 == IF ~invalid
                    THEN Logged(st, "valid", attr, 0, "", Undefined)
                    ELSE Logged(st, "invalid", attr, 0, "",
                                get(result.invalidAttrs, attr))
         IN eachValid(st1, result, Tail(todo))

\* the loop of lines 348-353 over the validated attributes still to visit
eachValid(st, result, todo) ==
    IF todo = <<>> THEN st
    ELSE LET attr == Head(todo)[1]
             invalid == hasOwnProperty(result.invalidAttrs, attr)
             st1 == IF ~invalid
                    THEN Logged(st, "valid", attr, 0, "", Undefined)
                    ELSE st
         IN eachValid(st1, result, Tail(todo))

RECURSIVE eachInvalid(_, _, _)
\* the loop announcing every invalid attribute, changed or not
eachInvalidChangedOrNot(st, result, todo) ==
    IF todo = <<>> THEN st
    ELSE LET attr == Head(todo)[1]
             invalid == hasOwnProperty(result.invalidAttrs, attr)
             st1 == IF invalid
                    THEN Logged(st, "invalid", attr, 0, "",
                                get(result.invalidAttrs, attr))
                    ELSE st
         IN eachInvalid(st1, result, Tail(todo))

\* the loop of lines 357-364 over the validated attributes still to visit
eachInvalid(st, result, todo) ==
    IF todo = <<>> THEN st
    ELSE LET attr == Head(todo)[1]
             invalid == hasOwnProperty(result.invalidAttrs, attr)
             changed == hasOwnProperty(st.run.changedAttrs, attr)
             st1 == IF invalid /\ (changed \/ st.run.validateAll)
                    THEN Logged(st, "invalid", attr, 0, "",
                                get(result.invalidAttrs, attr))
                    ELSE st
         IN eachInvalid(st1, result, Tail(todo))

\* a handler that settles the promise whatever the changed attributes are
settlePromiseAlways(st, result) ==
    IF truthy(st._isValid)
    THEN Logged([st EXCEPT !.run.deferred = "resolved"],
                "promise", "", 0, "resolved", Undefined)
    ELSE Logged([st EXCEPT !.run.deferred = "rejected"],
                "promise", "", 0, "rejected", Undefined)

\* what the handler of lines 374-386 does with the promise of validate()
settlePromise(st, result) ==
    IF ~st.run.forceUpdate /\ keysIntersect(result.invalidAttrs, st.run.changedAttrs)
    THEN [st EXCEPT !.run.returned = Obj(result.invalidAttrs)]
    ELSE IF truthy(st._isValid)
         THEN Logged([st EXCEPT !.run.deferred = "resolved"],
                     "promise", "", 0, "resolved", Undefined)
         ELSE Logged([st EXCEPT !.run.deferred = "rejected"],
                     "promise", "", 0, "rejected", Undefined)

\* a handler that dispatches both notifications itself, in the turn of the
\* settlement and ahead of the callbacks, instead of queueing them
validatedTriggersAtOnce(st, result) ==
    LET st1 == Logged([st EXCEPT !._isValid = Bool(result.isValid)],
                      "isValid", "", 0, "", Bool(result.isValid))
        st2 == Logged(st1, "trigger", "validated", 0, "",
                      Obj(<< <<"isValid", Bool(result.isValid)>>,
                             <<"invalidAttrs", Obj(result.invalidAttrs)>> >>))
        st3 == Logged(st2, "trigger",
                      IF result.isValid THEN "validated:valid" ELSE "validated:invalid",
                      0, "", Obj(<< <<"invalidAttrs", Obj(result.invalidAttrs)>> >>))
        st4 == eachInvalid(eachValid(st3, result, st.run.validatedAttrs),
                           result, st.run.validatedAttrs)
        st5 == settlePromise(st4, result)
    IN [st5 EXCEPT !.run.status = "done", !.run.oracle = <<>>]

\* a handler that stores the flag of the first run to settle and keeps it
validatedFirstFlagKept(st, result) ==
    LET flag == IF st._isValid = Undefined THEN Bool(result.isValid) ELSE st._isValid
        st1 == Logged([st EXCEPT !._isValid = flag], "isValid", "", 0, "", flag)
        st2 == eachValid(st1, result, st.run.validatedAttrs)
        st3 == eachInvalid(st2, result, st.run.validatedAttrs)
        st4 == [st3 EXCEPT !.timers =
                   Append(@, [run |-> st.id, invalidAttrs |-> result.invalidAttrs])]
        st5 == settlePromise(st4, result)
    IN [st5 EXCEPT !.run.status = "done", !.run.oracle = <<>>]

\* the handler validate() gives to validateModel(...).then, lines 343-387
validated(st, result) ==
    LET st1 == Logged([st EXCEPT !._isValid = Bool(result.isValid)],
                      "isValid", "", 0, "", Bool(result.isValid))
        st2 == eachValid(st1, result, st.run.validatedAttrs)
        st3 == eachInvalid(st2, result, st.run.validatedAttrs)
        st4 == [st3 EXCEPT !.timers =
                   Append(@, [run |-> st.id, invalidAttrs |-> result.invalidAttrs])]
        st5 == settlePromise(st4, result)
    IN [st5 EXCEPT !.run.status = "done", !.run.oracle = <<>>]

\* a run that keeps its validity flag on the entity, where the other runs
\* keep theirs
resolveModelSharedFlag(st) ==
    IF st.run.masterDeferred # "pending" THEN st
    ELSE LET isValid_ == st.run.isValid /\ st._isValid # Bool(FALSE)
         IN validated(
               Logged([st EXCEPT !.run.masterDeferred = "resolved",
                                 !.run.isValid = isValid_],
                      "runSettle", "", 0, "resolved", Bool(isValid_)),
               [invalidAttrs |-> st.run.invalidAttrs, isValid |-> isValid_])

\* masterDeferred.resolve({invalidAttrs, isValid}) of validateModel
resolveModel(st) ==
    IF st.run.masterDeferred # "pending" THEN st
    ELSE validated(
            Logged([st EXCEPT !.run.masterDeferred = "resolved"],
                   "runSettle", "", 0, "resolved", Bool(st.run.isValid)),
            [invalidAttrs |-> st.run.invalidAttrs, isValid |-> st.run.isValid])

RECURSIVE invokeValidator(_, _)
RECURSIVE invokeModel(_, _)

\* the rest of both handlers of invokeModel: the next pair, or the end
nextPair(st) ==
    IF st.run.pairs # <<>>
    THEN invokeModel([st EXCEPT !.run.pairs = Tail(@)], Head(st.run.pairs))
    ELSE resolveModel(st)

\* invokeModel's handler of a passed attribute, lines 233-258
attrPassed(st) == nextPair(st)

\* a handler of a failed attribute that ends the run there
attrFailedEndsRun(st, errorMessage) ==
    resolveModel([st EXCEPT !.run.invalidAttrs = put(@, st.run.attr, errorMessage),
                            !.run.isValid = FALSE])

\* invokeModel's handler of a failed attribute, lines 259-287
attrFailed(st, errorMessage) ==
    nextPair([st EXCEPT !.run.invalidAttrs = put(@, st.run.attr, errorMessage),
                        !.run.isValid = FALSE])

\* masterDeferred.resolve() in validateAttr: masterDeferred is the result of
\* invokeModel, or the deferred preValidate made
resolveAttr(st) ==
    IF st.run.result # "pending" THEN st
    ELSE LET st1 == Logged([st EXCEPT !.run.result = "resolved"],
                           "chainSettle", st.run.attr, 0, "resolved", Undefined)
         IN IF st.run.op = "validate" THEN attrPassed(st1)
            ELSE [st1 EXCEPT !.run.status = "done", !.run.oracle = <<>>]

\* masterDeferred.reject(msg) in validateAttr
rejectAttr(st, msg) ==
    IF st.run.result # "pending" THEN st
    ELSE LET st1 == Logged([st EXCEPT !.run.result = "rejected",
                                      !.run.resultMsg = msg],
                           "chainSettle", st.run.attr, 0, "rejected", msg)
         IN IF st.run.op = "validate" THEN attrFailed(st1, msg)
            ELSE [st1 EXCEPT !.run.status = "done", !.run.oracle = <<>>]

\* invokeValidator's handler of a passed validation, lines 144-168
resultResolved(st) ==
    IF st.run.validators # <<>>
    THEN invokeValidator([st EXCEPT !.run.validators = Tail(@)],
                         Head(st.run.validators))
    ELSE resolveAttr(st)

\* a handler of a failed validation that goes on with the next descriptor
resultRejectedGoesOn(st, errorMessage) == resultResolved(st)

\* invokeValidator's handler of a failed validation, lines 169-175
resultRejected(st, errorMessage) == rejectAttr(st, st.run.validator.msg)

\* no catch: the error of the validator leaves the call
syncErrorPropagates(st) ==
    Logged([st EXCEPT !.run.status = "fault", !.run.oracle = <<>>],
           "fault", st.run.attr, st.run.index, "", Undefined)

\* invokeValidator's catch of a synchronous error, lines 186-193
syncError(st) == rejectAttr(st, st.run.validator.msg)

\* validator.fn.call(ctx, result, value, attr, validator.val, model, computed):
\* what the call does with the result handle.  A descriptor of an unknown
\* kind has no fn, and calling it raises a TypeError.  The declarations of
\* this model name required, minLength, equalTo and fn only.
call(st, validator) ==
    LET r == st.run
    IN IF ~isFunction(validator.fn) THEN Throws
       ELSE CASE validator.fn.f = "required" ->
                    required(r.value, r.attr, validator.val, Model, r.computed)
              [] validator.fn.f = "minLength" ->
                    minLength(r.value, r.attr, validator.val, Model)
              [] validator.fn.f = "equalTo" ->
                    equalTo(r.value, r.attr, validator.val, Model, r.computed)
              [] validator.fn.f = "fn" ->
                    fn(r.value, r.attr, validator.val, Model, r.computed,
                       IF r.oracle = <<>> THEN Resolves ELSE Head(r.oracle))
              [] OTHER -> Throws

\* result.resolve() / result.reject(errorMessage) of the validator at work
settle(st, does) ==
    LET st1 == Logged([st EXCEPT !.run.status = "running"],
                      "settle", st.run.attr, st.run.index,
                      IF does.b = "resolve" THEN "resolved" ELSE "rejected",
                      does.msg)
    IN IF does.b = "resolve" THEN resultResolved(st1)
       ELSE resultRejected(st1, does.msg)

\* invokeValidator dispatching the next descriptor without waiting for a
\* validator that deferred its answer
invokeValidatorEager(st, validator) ==
    LET does == call(st, validator)
        custom == isFunction(validator.fn) /\ validator.fn.f = "fn"
        st1 == [st EXCEPT !.run.validator = validator,
                          !.run.index = @ + 1,
                          !.run.oracle = IF custom /\ @ # <<>> THEN Tail(@) ELSE @]
        st2 == Logged(st1, "invoke", st1.run.attr, st1.run.index, "", validator)
    IN CASE does.b = "throw" ->
                syncError(Logged(st2, "throw", st2.run.attr, st2.run.index, "", Undefined))
         [] does.b = "defer" -> resultResolved(st2)
         [] OTHER -> settle(st2, does)

\* invokeValidator giving up at once on a validator that returns with its
\* result handle pending: the chain fails
invokeValidatorGivesUp(st, validator) ==
    LET does == call(st, validator)
        custom == isFunction(validator.fn) /\ validator.fn.f = "fn"
        st1 == [st EXCEPT !.run.validator = validator,
                          !.run.index = @ + 1,
                          !.run.oracle = IF custom /\ @ # <<>> THEN Tail(@) ELSE @]
        st2 == Logged(st1, "invoke", st1.run.attr, st1.run.index, "", validator)
    IN CASE does.b = "throw" ->
                syncError(Logged(st2, "throw", st2.run.attr, st2.run.index, "", Undefined))
         [] does.b = "defer" -> rejectAttr(st2, validator.msg)
         [] OTHER -> settle(st2, does)

\* invokeValidator(validator), lines 137-195
invokeValidator(st, validator) ==
    LET does == call(st, validator)
        custom == isFunction(validator.fn) /\ validator.fn.f = "fn"
        st1 == [st EXCEPT !.run.validator = validator,
                          !.run.index = @ + 1,
                          !.run.oracle = IF custom /\ @ # <<>> THEN Tail(@) ELSE @]
        st2 == Logged(st1, "invoke", st1.run.attr, st1.run.index, "", validator)
    IN CASE does.b = "throw" ->
                syncError(Logged(st2, "throw", st2.run.attr, st2.run.index, "", Undefined))
         [] does.b = "defer" -> [st2 EXCEPT !.run.status = "waiting"]
         [] OTHER -> settle(st2, does)

\* validateAttr on a list of validators that the chains of an earlier,
\* settled run have used up
validateAttrUsedUp(st, attr, value) ==
    LET validators == IF isUndefined(st._isValid) THEN getValidators(Model, attr)
                      ELSE <<>>
        st1 == Logged([st EXCEPT !.run.attr = attr,
                                 !.run.value = value,
                                 !.run.result = "pending",
                                 !.run.resultMsg = Undefined,
                                 !.run.index = 0],
                      "chainStart", attr, 0, "", value)
    IN IF Len(validators) = 0 THEN resolveAttr(st1)
       ELSE invokeValidator([st1 EXCEPT !.run.validators = Tail(validators)],
                            Head(validators))

\* validateAttr without the test for an empty list of validators: the first
\* validator is undefined, and reading its fn and msg raises an error
validateAttrUnchecked(st, attr, value) ==
    LET validators == getValidators(Model, attr)
        st1 == Logged([st EXCEPT !.run.attr = attr,
                                 !.run.value = value,
                                 !.run.result = "pending",
                                 !.run.resultMsg = Undefined,
                                 !.run.index = 0],
                      "chainStart", attr, 0, "", value)
    IN IF Len(validators) = 0
       THEN Logged([st1 EXCEPT !.run.status = "fault", !.run.oracle = <<>>],
                   "fault", attr, 0, "", Undefined)
       ELSE invokeValidator([st1 EXCEPT !.run.validators = Tail(validators)],
                            Head(validators))

\* validateAttr(masterDeferred, model, attr, value, computed), lines 130-205
validateAttr(st, attr, value) ==
    LET validators == getValidators(Model, attr)
        st1 == Logged([st EXCEPT !.run.attr = attr,
                                 !.run.value = value,
                                 !.run.result = "pending",
                                 !.run.resultMsg = Undefined,
                                 !.run.index = 0],
                      "chainStart", attr, 0, "", value)
    IN IF Len(validators) = 0 THEN resolveAttr(st1)
       ELSE invokeValidator([st1 EXCEPT !.run.validators = Tail(validators)],
                            Head(validators))

\* invokeModel starting the chain of the next pair while the chain of this
\* one waits for a validator
invokeModelEager(st, pair) ==
    LET st1 == validateAttr(st, pair[1], pair[2])
    IN IF st1.run.status = "waiting" /\ st1.run.pairs # <<>>
       THEN validateAttr([st1 EXCEPT !.run.pairs = Tail(@)],
                         Head(st1.run.pairs)[1], Head(st1.run.pairs)[2])
       ELSE st1

\* invokeModel(pair), lines 224-292
invokeModel(st, pair) == validateAttr(st, pair[1], pair[2])

\* validateModel giving the validators the stored attributes as context
validateModelStaleContext(st, attrs) ==
    LET pairs == flatten(attrs, <<>>, "")
        st1 == [st EXCEPT !.run.computed = Model.attributes,
                          !.run.flattened = pairs,
                          !.run.invalidAttrs = <<>>,
                          !.run.isValid = TRUE,
                          !.run.masterDeferred = "pending"]
    IN IF pairs = <<>>
       THEN Logged([st1 EXCEPT !.run.status = "fault", !.run.oracle = <<>>],
                   "fault", "", 0, "", Undefined)
       ELSE invokeModel([st1 EXCEPT !.run.pairs = Tail(pairs)], Head(pairs))

\* validateModel(model, attrs), lines 211-297.  With no pair at all,
\* pairs.shift() is undefined and invokeModel raises a TypeError on pair[0].
validateModel(st, attrs) ==
    LET pairs == flatten(attrs, <<>>, "")
        st1 == [st EXCEPT !.run.computed = attrs,
                          !.run.flattened = pairs,
                          !.run.invalidAttrs = <<>>,
                          !.run.isValid = TRUE,
                          !.run.masterDeferred = "pending"]
    IN IF pairs = <<>>
       THEN Logged([st1 EXCEPT !.run.status = "fault", !.run.oracle = <<>>],
                   "fault", "", 0, "", Undefined)
       ELSE invokeModel([st1 EXCEPT !.run.pairs = Tail(pairs)], Head(pairs))

\* a call that has not begun
NewRun(op, oracle) ==
    [op |-> op, status |-> "running", oracle |-> oracle, attrs |-> Undefined,
     validateAll |-> FALSE, forceUpdate |-> FALSE,
     validatedAttrs |-> <<>>, changedAttrs |-> <<>>,
     deferred |-> "pending", returned |-> Undefined,
     masterDeferred |-> "pending", invalidAttrs |-> <<>>, isValid |-> TRUE,
     computed |-> <<>>, pairs |-> <<>>, flattened |-> <<>>,
     attr |-> "", value |-> Undefined, result |-> "pending", resultMsg |-> Undefined,
     validators |-> <<>>, validator |-> [fn |-> Undefined, val |-> Undefined, msg |-> Undefined],
     index |-> 0]

\* mixin.validate(attrs, setOptions), lines 332-392; attrs is Undefined or an
\* object, opt the options after _.extend({}, options, setOptions)
validate(st, attrs, opt) ==
    LET validateAll == ~truthy(attrs)
        validatedAttrs == getValidatedAttrs(Model)
        allAttrs == extend(extend(validatedAttrs, Model.attributes),
                           IF attrs.t = "object" THEN attrs.p ELSE <<>>)
        changedAttrs == flatten(IF truthy(attrs) THEN attrs.p ELSE allAttrs, <<>>, "")
        st1 == [st EXCEPT !.run.attrs = attrs,
                          !.run.validateAll = validateAll,
                          !.run.forceUpdate = opt.forceUpdate,
                          !.run.validatedAttrs = validatedAttrs,
                          !.run.changedAttrs = changedAttrs]
    IN validateModel(st1, allAttrs)

\* mixin.preValidate(attr, value), lines 305-307
preValidate(st, attr, value) ==
    validateAttr([st EXCEPT !.run.computed = Model.attributes], attr, value)

\* what getValidators reads when it is given a string for a model: a string
\* has no validation property
StringAsModel == [validation |-> Undefined, attributes |-> <<>>]

\* validateAttr(this, option, flattened[option], attributes) as isValid calls
\* it, lines 316 and 320: the entity is in the place of masterDeferred and the
\* path in the place of the model.  The list of validators of a string is
\* empty, and masterDeferred.resolve() is called on the entity, which has no
\* function resolve: a TypeError.
validateAttrOfIsValid(st, option, value) ==
    LET validators == getValidators(StringAsModel, value)
    IN IF Len(validators) = 0
       THEN Logged([st EXCEPT !.run.status = "fault", !.run.oracle = <<>>],
                   "fault", join(option.s), 0, "", Undefined)
       ELSE st

\* return this.validation ? this._isValid : true, line 326
answer(st) ==
    LET st1 == Logged(st, "answer", "isValid", 0, "",
                      IF truthy(Model.validation) THEN st._isValid ELSE Bool(TRUE))
    IN IF st1.run.op = "isValid"
       THEN [st1 EXCEPT !.run.status = "done", !.run.oracle = <<>>]
       ELSE st1

\* mixin.isValid(option), lines 312-327.  With true the call runs validate(),
\* and the run of the call is the run of that validate().
isValid(st, option) ==
    LET flattened == flatten(Model.attributes, <<>>, "")
        st0 == Logged([st EXCEPT !.run.attrs = option],
                      "call", "isValid", 0, "", option)
    IN CASE isString(option) ->
                validateAttrOfIsValid(st0, option, get(flattened, join(option.s)))
         [] option.t = "array" ->
                IF option.a = <<>>
                THEN Logged([st0 EXCEPT !.run.status = "done", !.run.oracle = <<>>],
                            "answer", "isValid", 0, "", Bool(TRUE))
                ELSE validateAttrOfIsValid(st0, Head(option.a),
                                           get(flattened, join(Head(option.a).s)))
         [] option = Bool(TRUE) ->
                LET st1 == validate([st0 EXCEPT !.run.op = "validate"],
                                    Undefined, [forceUpdate |-> FALSE])
                IN IF st1.run.status = "fault" THEN st1 ELSE answer(st1)
         [] OTHER -> answer(st0)

-----------------------------------------------------------------------------
(* Inputs: rule declarations, attribute values, calls *)

AttrNames == <<"a", "b">>

\* the parameters a declaration gives a validator
Params(name) ==
    CASE name = "required" -> {Bool(TRUE), Bool(FALSE)}
      [] name = "minLength" -> {Num(2)}
      [] name = "fn" -> {Fun(f) : f \in CustomFns}
      [] OTHER -> {Bool(TRUE)}

\* the mappings of at most n validators named in names, no name twice
RECURSIVE Mappings(_, _)
Mappings(names, n) ==
    IF n = 0 THEN {<<>>}
    ELSE LET shorter == Mappings(names, n - 1)
         IN shorter \cup
            UNION {UNION {{Append(m, <<name, val>>) : val \in Params(name)} :
                          name \in names \ Range(keys(m))} :
                   m \in {x \in shorter : Len(x) = n - 1}}

Message == Str(<<"declared message">>)

\* a mapping with and without the reserved msg key
WithMsg(ms) == ms \cup {Append(m, <<"msg", Message>>) : m \in ms \ {<<>>}}

\* the lists of n mappings of one validator each
RECURSIVE Lists(_)
Lists(n) ==
    IF n < 2 THEN {}
    ELSE Lists(n - 1) \cup
         [1..n -> {Obj(m) : m \in Mappings({"required", "minLength", "fn"}, 1) \ {<<>>}}]

\* the declarations of one attribute in the attribute chain specification;
\* "unknown" names no validator of the library
ChainDeclarations ==
    {Obj(m) : m \in WithMsg(Mappings({"required", "minLength", "fn", "unknown"},
                                     MaxDescriptors))}
    \cup {Fun(f) : f \in CustomFns} \cup {Str(<<name>>) : name \in Methods}
    \cup {Arr(a) : a \in Lists(MaxDescriptors)}

\* the declarations of one attribute in the entity specification
EntityDeclarations ==
    {Obj(m) : m \in Mappings({"required", "fn"}, MaxDescriptors)}

\* the strings of at most n characters
RECURSIVE Strings(_)
Strings(n) ==
    IF n = 0 THEN {<<>>}
    ELSE LET shorter == Strings(n - 1)
         IN shorter \cup {Append(s, c) : s \in {x \in shorter : Len(x) = n - 1},
                                         c \in {Blank, "x"}}

\* the values preValidate is called with
ChainValues ==
    {Undefined, Null, Obj(<<>>)} \cup {Str(s) : s \in Strings(MaxStrLen)}

\* the values of a stored attribute
StoredValues == {Str(<<"x">>), Obj(<< <<"x", Str(<<"x">>)>> >>)}

\* the values of a proposed attribute
ProposedValues == {Str(<<>>), Obj(<<>>)}

\* the objects with some of the attribute names as keys, in their order,
\* and values in vals
ObjectsOver(vals) ==
    {<<>>}
    \cup {<< <<AttrNames[1], v>> >> : v \in vals}
    \cup {<< <<AttrNames[2], v>> >> : v \in vals}
    \cup {<< <<AttrNames[1], v>>, <<AttrNames[2], w>> >> : v \in vals, w \in vals}

\* the number of custom functions among the descriptors of the paths
RECURSIVE customCount(_, _)
customCount(model, paths) ==
    IF paths = <<>> THEN 0
    ELSE Cardinality({i \in DOMAIN getValidators(model, Head(paths)) :
                        LET v == getValidators(model, Head(paths))[i]
                        IN isFunction(v.fn) /\ v.fn.f = "fn"})
         + customCount(model, Tail(paths))

-----------------------------------------------------------------------------
(* Actions *)

St(i) == [run |-> runs[i], id |-> i, _isValid |-> _isValid,
          timers |-> timers, turn |-> turn + 1, log |-> log]

Begin(op, oracle) ==
    [run |-> NewRun(op, oracle), id |-> Len(runs) + 1, _isValid |-> _isValid,
     timers |-> timers, turn |-> turn + 1, log |-> log]

Commit(st) ==
    /\ runs' = [i \in 1..(IF st.id > Len(runs) THEN st.id ELSE Len(runs)) |->
                   IF i = st.id THEN st.run ELSE runs[i]]
    /\ _isValid' = st._isValid
    /\ timers' = st.timers
    /\ turn' = st.turn
    /\ log' = st.log
    /\ UNCHANGED <<validation, attributes>>

\* model.validate(attrs, {forceUpdate: ...})
Validate(attrs, forceUpdate, oracle) ==
    Commit(validate(Begin("validate", oracle), attrs, [forceUpdate |-> forceUpdate]))

\* model.preValidate(attr, value)
PreValidate(attr, value, oracle) ==
    Commit(preValidate(Begin("preValidate", oracle), attr, value))

\* a validator that deferred its answer settles its result handle
Settle(i, does) ==
    /\ runs[i].status = "waiting"
    /\ Commit(settle(St(i), does))

\* the function validate() queued with _.defer runs, lines 369-372
Deferred ==
    /\ timers # <<>>
    /\ timers' = Tail(timers)
    /\ turn' = turn + 1
    /\ log' = log \o
         << [e |-> "trigger", run |-> Head(timers).run, turn |-> turn + 1,
             attr |-> "validated", k |-> 0, out |-> "",
             msg |-> Obj(<< <<"isValid", _isValid>>,
                            <<"invalidAttrs", Obj(Head(timers).invalidAttrs)>> >>)],
            [e |-> "trigger", run |-> Head(timers).run, turn |-> turn + 1,
             attr |-> IF truthy(_isValid) THEN "validated:valid" ELSE "validated:invalid",
             k |-> 0, out |-> "",
             msg |-> Obj(<< <<"invalidAttrs", Obj(Head(timers).invalidAttrs)>> >>)] >>
    /\ UNCHANGED <<validation, attributes, _isValid, runs>>

\* the oracles of a call that validates the paths
Oracles(model, paths) == [1..customCount(model, paths) -> Behaviours]

\* the paths validate(attrs) runs through
PathsOf(model, attrs) ==
    keys(flatten(extend(extend(getValidatedAttrs(model), model.attributes),
                        IF attrs.t = "object" THEN attrs.p ELSE <<>>), <<>>, ""))

SettleSome ==
    \E i \in DOMAIN runs : \E does \in {Resolves, Rejects(CustomMessage)} : Settle(i, does)

(* The entity specification: an entity with rules for its attributes, one   *)
(* call of validate.                                                        *)
Init ==
    /\ validation \in
          {Undefined}
          \cup {Obj(<< <<AttrNames[1], da>> >>) : da \in EntityDeclarations}
          \cup {Obj(<< <<AttrNames[1], da>>, <<AttrNames[2], db>> >>) :
                   da \in EntityDeclarations, db \in EntityDeclarations}
    /\ attributes \in ObjectsOver(StoredValues)
    /\ _isValid = Undefined
    /\ runs = <<>>
    /\ timers = <<>>
    /\ turn = 0
    /\ log = <<>>

\* some call of validate, by a caller that has made no call yet
ValidateSome ==
    /\ runs = <<>>
    /\ \E attrs \in {Undefined} \cup {Obj(p) : p \in ObjectsOver(ProposedValues)},
          forceUpdate \in BOOLEAN :
          \E oracle \in Oracles(Model, PathsOf(Model, attrs)) :
             Validate(attrs, forceUpdate, oracle)

Next ==
    \/ ValidateSome
    \/ SettleSome
    \/ Deferred

Spec == Init /\ [][Next]_vars

(* The attribute chain specification: one attribute with a rule            *)
(* declaration, one call of preValidate.                                    *)
InitChain ==
    /\ validation \in {Undefined} \cup
                      {Obj(<< <<AttrNames[1], d>> >>) : d \in ChainDeclarations}
    /\ attributes = <<>>
    /\ _isValid = Undefined
    /\ runs = <<>>
    /\ timers = <<>>
    /\ turn = 0
    /\ log = <<>>

\* some call of preValidate, by a caller that has made no call yet
PreValidateSome ==
    /\ runs = <<>>
    /\ \E attr \in Range(AttrNames), value \in ChainValues :
          \E oracle \in Oracles(Model, <<attr>>) :
             PreValidate(attr, value, oracle)

NextChain ==
    \/ PreValidateSome
    \/ SettleSome

SpecChain == InitChain /\ [][NextChain]_vars

(* The overlapping runs specification: an entity with a few rules, and     *)
(* calls of validate that may come while earlier runs wait for a validator *)
(* or for their queued notification.                                       *)

\* the number of calls of validate
MaxRuns == 2

\* {required: true}, {fn: custom, msg: ...}, {equalTo: 'a'},
\* and {unknown: true, msg: ...}, which names no validator of the library
IsRequired == Obj(<< <<"required", Bool(TRUE)>> >>)
IsCustomWithMsg == Obj(<< <<"fn", Fun("custom")>>, <<"msg", Message>> >>)
IsEqualToA == Obj(<< <<"equalTo", Str(<<AttrNames[1]>>)>> >>)
IsUnknown == Obj(<< <<"unknown", Bool(TRUE)>>, <<"msg", Message>> >>)

\* the rule declarations of the entity
RunsDeclarations ==
    {Obj(<< <<AttrNames[1], IsRequired>> >>),
     Obj(<< <<AttrNames[1], IsCustomWithMsg>>, <<AttrNames[2], IsRequired>> >>),
     Obj(<< <<AttrNames[1], IsUnknown>>, <<AttrNames[2], IsRequired>> >>),
     Obj(<< <<AttrNames[2], IsEqualToA>> >>)}

\* the stored attributes of the entity: both attributes 'x'
RunsStored ==
    << <<AttrNames[1], Str(<<"x">>)>>, <<AttrNames[2], Str(<<"x">>)>> >>

\* what the custom validator of these entities may do when it is called; it
\* fails by rejecting its result handle in a later turn
RunsBehaviours == {Resolves, Throws, Defers}

\* the arguments of validate: none, or the first or both attributes ''
RunsProposed ==
    {Undefined,
     Obj(<< <<AttrNames[1], Str(<<>>)>> >>),
     Obj(<< <<AttrNames[1], Str(<<>>)>>, <<AttrNames[2], Str(<<>>)>> >>)}

InitRuns ==
    /\ validation \in RunsDeclarations
    /\ attributes = RunsStored
    /\ _isValid = Undefined
    /\ runs = <<>>
    /\ timers = <<>>
    /\ turn = 0
    /\ log = <<>>

\* one more call of validate, whatever the earlier runs are doing
ValidateAgain ==
    /\ Len(runs) < MaxRuns
    /\ \E attrs \in RunsProposed :
          \E oracle \in [1..customCount(Model, PathsOf(Model, attrs)) -> RunsBehaviours] :
             Validate(attrs, FALSE, oracle)

NextRuns ==
    \/ ValidateAgain
    \/ SettleSome
    \/ Deferred

SpecRuns == InitRuns /\ [][NextRuns]_vars

(* The snapshot specification: the entity of the overlapping runs          *)
(* specification, or one without rules; a call of validate first or not,   *)
(* then calls of isValid.                                                  *)

\* model.isValid(option)
IsValid(option, oracle) ==
    Commit(isValid(Begin("isValid", oracle), option))

\* the arguments of isValid: none, true, a path, a list of paths
IsValidOptions ==
    {Undefined, Bool(TRUE), Arr(<<>>)}
    \cup {Str(<<AttrNames[n]>>) : n \in DOMAIN AttrNames}
    \cup {Arr(<<Str(<<AttrNames[1]>>)>>),
          Arr(<<Str(<<AttrNames[1]>>), Str(<<AttrNames[2]>>)>>)}

InitSnapshot ==
    /\ validation \in RunsDeclarations \cup {Undefined}
    /\ attributes = RunsStored
    /\ _isValid = Undefined
    /\ runs = <<>>
    /\ timers = <<>>
    /\ turn = 0
    /\ log = <<>>

\* a call of validate by a caller that has made no call yet
ValidateFirst ==
    /\ runs = <<>>
    /\ \E attrs \in RunsProposed :
          \E oracle \in Oracles(Model, PathsOf(Model, attrs)) :
             Validate(attrs, FALSE, oracle)

\* some call of isValid
IsValidSome ==
    /\ Len(runs) < MaxRuns
    /\ \E option \in IsValidOptions :
          \E oracle \in IF option = Bool(TRUE)
                         THEN Oracles(Model, PathsOf(Model, Undefined))
                         ELSE {<<>>} :
             IsValid(option, oracle)

NextSnapshot ==
    \/ ValidateFirst
    \/ IsValidSome
    \/ SettleSome
    \/ Deferred

SpecSnapshot == InitSnapshot /\ [][NextSnapshot]_vars

(* The nested attributes specification: an entity whose first attribute   *)
(* holds a nested value, with a rule for it or without rules, and one call *)
(* of validate.                                                            *)

\* the depth of nesting of the values
MaxDepth == 2

\* a date, a pattern, an entity and a collection
ADate == [t |-> "date"]
APattern == [t |-> "regexp"]
AnEntity == [t |-> "model"]
ACollection == [t |-> "collection"]

\* the values flatten keeps as they are
Leaves == {Str(<<"x">>), Null, ADate, APattern, AnEntity, ACollection}

\* the values nested at most d deep: leaves, empty containers, objects of
\* one and two keys and arrays of one element
RECURSIVE Nested(_)
Nested(d) ==
    IF d = 0 THEN Leaves
    ELSE LET inner == Nested(d - 1)
         IN Leaves \cup {Obj(<<>>), Arr(<<>>)}
            \cup {Obj(<< <<"x", v>> >>) : v \in inner}
            \cup {Arr(<<v>>) : v \in inner}
            \cup {Obj(<< <<"x", Str(<<"x">>)>>, <<"y", v>> >>) : v \in inner}

InitNested ==
    /\ validation \in {Undefined, Obj(<< <<AttrNames[1], IsRequired>> >>)}
    /\ attributes \in {<< <<AttrNames[1], v>> >> : v \in Nested(MaxDepth)}
    /\ _isValid = Undefined
    /\ runs = <<>>
    /\ timers = <<>>
    /\ turn = 0
    /\ log = <<>>

\* a call of validate by a caller that has made no call yet: of the whole
\* entity, or with a proposed second attribute
ValidateNested ==
    /\ runs = <<>>
    /\ \E attrs \in {Undefined,
                     Obj(<< <<AttrNames[2], Str(<<"x">>)>> >>),
                     Obj(<< <<AttrNames[2], Arr(<<Str(<<"x">>)>>)>> >>)} :
          Validate(attrs, FALSE, <<>>)

NextNested ==
    \/ ValidateNested
    \/ Deferred

SpecNested == InitNested /\ [][NextNested]_vars

-----------------------------------------------------------------------------
(* Reading the log *)

Events == DOMAIN log

\* the events of kind e of run r about attribute attr
Of(e, r, attr) == {i \in Events : log[i].e = e /\ log[i].run = r /\ log[i].attr = attr}

\* the events of kind e of run r
OfRun(e, r) == {i \in Events : log[i].e = e /\ log[i].run = r}

Before(is, i) == {j \in is : j < i}
After(is, i) == {j \in is : j > i}

\* a plain container: flatten recurses into it
isContainer(val) == truthy(val) /\ typeofObject(val) /\ ~isOpaque(val)

Calls(op) == {r \in DOMAIN runs : runs[r].op = op}

-----------------------------------------------------------------------------
(* C1.  Within one attribute chain the descriptors are invoked in          *)
(* declaration order, and descriptor k+1 is never invoked before           *)
(* descriptor k has settled: the n-th invocation of a chain is that of the *)
(* n-th descriptor of the attribute's normalised declaration, and before   *)
(* it the result handles of all n-1 earlier descriptors have been settled  *)
(* as passed, whether at once or in a later turn.                          *)
C1_DescriptorOrder ==
    \A i \in Events :
        log[i].e = "invoke" =>
            LET r == log[i].run
                attr == log[i].attr
                n == Cardinality(Before(Of("invoke", r, attr), i)) + 1
                declared == getValidators(Model, attr)
            IN /\ n <= Len(declared)
               /\ log[i].msg = declared[n]
               /\ log[i].k = n
               /\ \A k \in 1..(n - 1) :
                     \E j \in Before(Of("settle", r, attr), i) :
                        /\ log[j].k = k
                        /\ log[j].out = "resolved"
                        /\ \E h \in Before(Of("invoke", r, attr), j) : log[h].k = k

\* a second descriptor is invoked in a later turn than the first, which
\* deferred its answer
C1_Witness ==
    \E i \in Events, j \in Events :
        /\ log[i].e = "invoke" /\ log[j].e = "invoke"
        /\ log[i].run = log[j].run /\ log[i].attr = log[j].attr
        /\ log[i].k = 1 /\ log[j].k = 2
        /\ log[i].turn < log[j].turn

-----------------------------------------------------------------------------
(* C2.  Within one entity run the chain of attribute i+1, in the order of  *)
(* the flattened map, is never started until the chain of attribute i has  *)
(* settled, and at most one chain of the run is in progress at any time:   *)
(* the n-th chain started is that of the n-th flattened path, every chain  *)
(* started before it has settled before it starts, and a chain settles     *)
(* only while it is the one chain started and not yet settled.             *)
C2_AttributeOrder ==
    \A r \in Calls("validate") :
        LET starts == OfRun("chainStart", r)
            settles == OfRun("chainSettle", r)
            paths == PathsOf(Model, runs[r].attrs)
        IN /\ \A i \in starts :
                 LET n == Cardinality(Before(starts, i))
                 IN /\ n < Len(paths)
                    /\ log[i].attr = paths[n + 1]
                    /\ Cardinality(Before(settles, i)) = n
           /\ \A i \in settles :
                 /\ Cardinality(Before(starts, i)) = Cardinality(Before(settles, i)) + 1
                 /\ \E j \in Before(starts, i) :
                       /\ log[j].attr = log[i].attr
                       /\ Before(starts, i) \cap After(starts, j) = {}

\* the chain of a second attribute starts in a later turn than the chain of
\* the first, which had to wait for a validator
C2_Witness ==
    \E r \in Calls("validate") : \E i, j \in OfRun("chainStart", r) :
        /\ i < j
        /\ log[i].attr # log[j].attr
        /\ log[i].turn < log[j].turn

-----------------------------------------------------------------------------
(* C3.  Short-circuit within an attribute: once a descriptor of an         *)
(* attribute settles as failed, the attribute chain settles as failed and  *)
(* no later descriptor of that attribute is invoked in that run.           *)
C3_ShortCircuit ==
    \A i \in Events :
        (log[i].e = "settle" /\ log[i].out = "rejected") =>
            LET r == log[i].run
                attr == log[i].attr
            IN /\ \E j \in After(Of("chainSettle", r, attr), i) : log[j].out = "rejected"
               /\ After(Of("invoke", r, attr), i) = {}
               /\ runs[r].result = "rejected"

\* a descriptor failed, in a later turn than it was invoked, and the
\* declaration has a descriptor after it
C3_Witness ==
    \E i \in Events :
        /\ log[i].e = "settle" /\ log[i].out = "rejected"
        /\ log[i].k < Len(getValidators(Model, log[i].attr))
        /\ \E j \in Of("invoke", log[i].run, log[i].attr) :
              log[j].k = log[i].k /\ log[j].turn < log[i].turn

-----------------------------------------------------------------------------
\* the attributes with a rule declaration
ValidatedAttrs == Range(keys(getValidatedAttrs(Model)))

\* the attribute set run r validates: the validated attributes, the stored
\* attributes and the proposed ones
Merged(r) ==
    extend(extend(getValidatedAttrs(Model), attributes),
           IF runs[r].attrs.t = "object" THEN runs[r].attrs.p ELSE <<>>)

\* the attributes whose chain failed in run r
Failed(r) == {log[i].attr : i \in {j \in OfRun("chainSettle", r) : log[j].out = "rejected"}}

(* C4 as claimed.  In every entity run that settles, every validated       *)
(* attribute (every key of the rule declaration) has its chain evaluated   *)
(* exactly once, the keys of invalidAttrs are the attributes whose chain   *)
(* failed, and isValid is true exactly when there is none.                 *)
C4_EveryValidatedAttribute ==
    \A r \in Calls("validate") :
        runs[r].status = "done" =>
            /\ \A attr \in ValidatedAttrs :
                  /\ Cardinality(Of("chainStart", r, attr)) = 1
                  /\ Cardinality(Of("chainSettle", r, attr)) = 1
            /\ Range(keys(runs[r].invalidAttrs)) = Failed(r)
            /\ runs[r].isValid <=> Failed(r) = {}

(* C4, amended.  In every entity run that settles, every path of the       *)
(* flattened attribute map has its chain evaluated exactly once, even when *)
(* earlier attributes failed, and no other chain is evaluated; the         *)
(* flattened map holds every validated attribute whose value in the        *)
(* validated attribute set is not a plain container; the keys of           *)
(* invalidAttrs are the paths whose chain failed, and isValid is true      *)
(* exactly when there is none.                                             *)
C4_EveryFlattenedPath ==
    \A r \in Calls("validate") :
        runs[r].status = "done" =>
            LET paths == Range(PathsOf(Model, runs[r].attrs))
            IN /\ \A attr \in paths :
                     /\ Cardinality(Of("chainStart", r, attr)) = 1
                     /\ Cardinality(Of("chainSettle", r, attr)) = 1
               /\ \A i \in OfRun("chainStart", r) : log[i].attr \in paths
               /\ \A attr \in ValidatedAttrs :
                     ~isContainer(get(Merged(r), attr)) => attr \in paths
               /\ Range(keys(runs[r].invalidAttrs)) = Failed(r)
               /\ runs[r].isValid <=> Failed(r) = {}

\* a settled run in which a chain was evaluated after the chain of an
\* earlier attribute had failed
C4_Witness ==
    \E r \in Calls("validate") :
        /\ runs[r].status = "done"
        /\ \E i \in OfRun("chainSettle", r) :
              /\ log[i].out = "rejected"
              /\ \E j \in After(OfRun("chainSettle", r), i) : log[j].attr # log[i].attr

-----------------------------------------------------------------------------
(* C5.  Required override, in the case of the spec's example: when the     *)
(* first descriptor of an attribute is `required: false` and the value is  *)
(* empty, the whole chain passes whatever the other descriptors are, and   *)
(* no other descriptor is applied to the empty value.                      *)
C5_RequiredOverride ==
    \A r \in Calls("preValidate") :
        LET declared == getValidators(Model, runs[r].attr)
        IN (/\ runs[r].status = "done"
            /\ ~hasValue(runs[r].value)
            /\ declared # <<>>
            /\ declared[1].fn = Fun("required")
            /\ ~truthy(declared[1].val))
           => /\ runs[r].result = "resolved"
              /\ \A i \in Of("invoke", r, runs[r].attr) : log[i].k = 1

-----------------------------------------------------------------------------
(* C6.  When the first descriptor of an attribute is `required: true`, no  *)
(* message is declared and the value is empty, the chain fails with the    *)
(* required message '<Label> is required', and no other descriptor of the  *)
(* attribute is invoked.                                                   *)
C6_RequiredMessage ==
    \A r \in Calls("preValidate") :
        LET declared == getValidators(Model, runs[r].attr)
        IN (/\ runs[r].status = "done"
            /\ ~hasValue(runs[r].value)
            /\ declared # <<>>
            /\ declared[1].fn = Fun("required")
            /\ truthy(declared[1].val)
            /\ declared[1].msg = Undefined)
           => /\ runs[r].result = "rejected"
              /\ runs[r].resultMsg =
                    Str(<<sentenceCase(runs[r].attr) \o " is required">>)
              /\ \A i \in Of("invoke", r, runs[r].attr) : log[i].k = 1

-----------------------------------------------------------------------------
(* C7.  Single settle point: once every validator a call of validate       *)
(* invoked has settled and the run has ended, the promise validate         *)
(* returned is settled, resolved when no attribute is invalid and rejected *)
(* when one is.  (Nothing touches the promise after the run has ended, so  *)
(* a promise pending then stays pending for ever.)                         *)
C7_SettlePoint ==
    \A r \in Calls("validate") :
        runs[r].status = "done" =>
            /\ runs[r].deferred # "pending"
            /\ runs[r].deferred = "resolved" <=> runs[r].invalidAttrs = <<>>

-----------------------------------------------------------------------------
\* the attributes of run r that a required descriptor failed
FailedRequired(r) ==
    {attr \in Failed(r) :
        \E i \in Of("settle", r, attr), j \in Of("invoke", r, attr) :
            /\ log[i].out = "rejected"
            /\ log[j].k = log[i].k
            /\ log[j].msg.fn = Fun("required")}

\* the paths of the proposed attributes of run r
Changed(r) ==
    IF runs[r].attrs.t = "object"
    THEN Range(keys(flatten(runs[r].attrs.p, <<>>, "")))
    ELSE {}

\* run r was called without proposed attributes
ValidateAll(r) == ~truthy(runs[r].attrs)

(* C8.  With forceUpdate true and a failing required attribute (one of the *)
(* proposed attributes, or any in a validation of the whole entity),       *)
(* validate still invokes the invalid callback for that attribute, and the *)
(* promise it returned is resolved, not rejected.                          *)
C8_ForceUpdate ==
    \A r \in Calls("validate") :
        (runs[r].status = "done" /\ runs[r].forceUpdate) =>
            \A attr \in FailedRequired(r) \cap ValidatedAttrs :
                (attr \in Changed(r) \/ ValidateAll(r)) =>
                    /\ Of("invalid", r, attr) # {}
                    /\ runs[r].deferred = "resolved"

-----------------------------------------------------------------------------
(* C9.  Callback dispatch of validate: no callback before the run settles; *)
(* after it, the valid callback has been invoked for exactly the validated *)
(* attributes that are not in invalidAttrs, and the invalid callback for   *)
(* exactly the validated attributes that are in invalidAttrs and are in    *)
(* the flattened proposed change set or validated because validate was     *)
(* called without proposed attributes.                                     *)
C9_CallbackDispatch ==
    \A r \in Calls("validate") :
        LET invalid == Range(keys(runs[r].invalidAttrs))
            validCalls == {log[i].attr : i \in OfRun("valid", r)}
            invalidCalls == {log[i].attr : i \in OfRun("invalid", r)}
        IN /\ \A i \in OfRun("valid", r) \cup OfRun("invalid", r) :
                 Before(OfRun("runSettle", r), i) # {}
           /\ runs[r].status = "done" =>
                 /\ validCalls = ValidatedAttrs \ invalid
                 /\ invalidCalls = {attr \in ValidatedAttrs \cap invalid :
                                       attr \in Changed(r) \/ ValidateAll(r)}

\* a partial validation after which one invalid attribute, proposed, got
\* the invalid callback and another, not proposed, got no callback
C9_Witness ==
    \E r \in Calls("validate") :
        /\ runs[r].status = "done"
        /\ ~ValidateAll(r)
        /\ \E attr \in ValidatedAttrs \cap Range(keys(runs[r].invalidAttrs)) :
              attr \notin Changed(r) /\ Of("invalid", r, attr) = {} /\ Of("valid", r, attr) = {}
        /\ \E attr \in ValidatedAttrs \cap Range(keys(runs[r].invalidAttrs)) :
              attr \in Changed(r) /\ Of("invalid", r, attr) # {}

-----------------------------------------------------------------------------
(* C10.  In one run of validate each validated attribute gets at most one  *)
(* callback in all, never a valid and an invalid callback and never the    *)
(* same callback twice, and every valid callback of the run is dispatched  *)
(* before any invalid callback of the run.                                 *)
C10_OneCallback ==
    \A r \in Calls("validate") :
        LET calls == OfRun("valid", r) \cup OfRun("invalid", r)
        IN /\ \A i, j \in calls : log[i].attr = log[j].attr => i = j
           /\ \A i \in OfRun("valid", r), j \in OfRun("invalid", r) : i < j

\* a run with an invalid callback for the first validated attribute and a
\* valid callback for the second
C10_Witness ==
    \E r \in Calls("validate") :
        /\ Len(getValidatedAttrs(Model)) = 2
        /\ Of("invalid", r, getValidatedAttrs(Model)[1][1]) # {}
        /\ Of("valid", r, getValidatedAttrs(Model)[2][1]) # {}

-----------------------------------------------------------------------------
(* C11.  The 'validated' notification of a validate() run is dispatched in *)
(* a later turn than the run's settlement, after the stored validity flag  *)
(* has been updated by the run and after all of the run's valid and        *)
(* invalid callbacks; exactly one kind-specific notification               *)
(* ('validated:valid' or 'validated:invalid') follows it immediately in    *)
(* the same turn; and a settled run has each of them dispatched, or still  *)
(* queued, exactly once, a run that has not settled never.                 *)
C11_NotificationOrder ==
    /\ \A i \in Events :
          (log[i].e = "trigger" /\ log[i].attr = "validated") =>
              LET r == log[i].run
              IN /\ \E j \in Before(OfRun("runSettle", r), i) :
                       log[j].turn < log[i].turn
                 /\ \E j \in Before(OfRun("isValid", r), i) :
                       log[j].turn < log[i].turn
                 /\ \A j \in OfRun("valid", r) \cup OfRun("invalid", r) : j < i
                 /\ i + 1 \in Events
                 /\ log[i + 1].e = "trigger"
                 /\ log[i + 1].run = r
                 /\ log[i + 1].turn = log[i].turn
                 /\ log[i + 1].attr \in {"validated:valid", "validated:invalid"}
                 /\ (i + 2 \in Events => log[i + 2].turn > log[i].turn)
    /\ \A r \in Calls("validate") :
          LET n(a) == Cardinality(Of("trigger", r, a))
              queued == Cardinality({k \in DOMAIN timers : timers[k].run = r})
          IN /\ n("validated") + queued = IF runs[r].status = "done" THEN 1 ELSE 0
             /\ n("validated:valid") + n("validated:invalid") = n("validated")

\* both notifications of a run have been dispatched, after a validator that
\* deferred its answer let the run settle in a later turn than the call, and
\* after a valid and an invalid callback of the run
C11_Witness ==
    \E i \in Events :
        /\ log[i].e = "trigger" /\ log[i].attr = "validated"
        /\ \E j \in OfRun("runSettle", log[i].run) : log[j].turn > 1
        /\ OfRun("valid", log[i].run) # {}
        /\ OfRun("invalid", log[i].run) # {}

-----------------------------------------------------------------------------
(* C12.  Every dispatched 'validated' notification carries the validity    *)
(* flag and the invalid-attribute map of the same run: the carried flag is *)
(* the flag that run settled with, it is false if and only if the carried  *)
(* map is non-empty, and the kind-specific notification that follows is    *)
(* 'validated:invalid' if and only if the carried map is non-empty, also   *)
(* when another run settled between that run's settlement and dispatch.    *)
C12_SameRunFlag ==
    \A i \in Events :
        (log[i].e = "trigger" /\ log[i].attr = "validated") =>
            LET flag == get(log[i].msg.p, "isValid")
                map == get(log[i].msg.p, "invalidAttrs").p
            IN /\ flag = Bool(runs[log[i].run].isValid)
               /\ map = runs[log[i].run].invalidAttrs
               /\ (flag = Bool(FALSE)) <=> (map # <<>>)
               /\ (i + 1 \in Events /\ log[i + 1].e = "trigger") =>
                     ((log[i + 1].attr = "validated:invalid") <=> (map # <<>>))

-----------------------------------------------------------------------------
(* C13.  When an attribute chain fails at a built in validator, the        *)
(* message delivered to the caller is the message the declaration gives    *)
(* with msg when it gives one, and otherwise the default message of the    *)
(* kind of the failing validator with the label of the attribute and the   *)
(* parameter of the validator filled in.                                   *)

\* the default message of a built in validator: label and parameter filled in
DefaultMessage(validator, attr) ==
    CASE validator.fn.f = "required" ->
            format(defaultMessages.required, <<formatLabel(attr, Model)>>)
      [] validator.fn.f = "minLength" ->
            format(defaultMessages.minLength,
                   <<formatLabel(attr, Model), numText(validator.val.n)>>)
      [] validator.fn.f = "equalTo" ->
            format(defaultMessages.equalTo,
                   <<formatLabel(attr, Model),
                     formatLabel(join(validator.val.s), Model)>>)

\* the invocation a chain of run r on attr was at when event j was logged
LastInvoke(r, attr, j) ==
    LET invokes == {i \in 1..(j - 1) :
                      log[i].e = "invoke" /\ log[i].run = r /\ log[i].attr = attr}
    IN CHOOSE i \in invokes : \A h \in invokes : h <= i

C13_FailureMessage ==
    \A j \in Events :
        (log[j].e = "chainSettle" /\ log[j].out = "rejected") =>
            LET validator == log[LastInvoke(log[j].run, log[j].attr, j)].msg
            IN (isFunction(validator.fn)
                /\ validator.fn.f \in {"required", "minLength", "equalTo"}) =>
                  log[j].msg = IF isUndefined(validator.msg)
                               THEN DefaultMessage(validator, log[j].attr)
                               ELSE validator.msg

-----------------------------------------------------------------------------
(* C14.  When the call of a descriptor raises an error before its result   *)
(* handle is settled (a custom validator that throws, or a descriptor of   *)
(* an unknown kind, which has no function to call), the error does not     *)
(* leave the run: the chain of the attribute settles at once as failed     *)
(* with the message the declaration gives with msg, the attribute is       *)
(* entered in the run's invalidAttrs with that message, and the run goes   *)
(* on in the same turn with the chain of the next path of its flattened    *)
(* map, or settles when there is none.                                     *)
C14_FaultHandling ==
    \A i \in Events :
        log[i].e = "throw" =>
            LET r == log[i].run
                attr == log[i].attr
                validator == log[LastInvoke(r, attr, i + 1)].msg
                paths == keys(runs[r].flattened)
                at == CHOOSE n \in DOMAIN paths : paths[n] = attr
            IN /\ OfRun("fault", r) = {}
               /\ i + 1 \in Events
               /\ log[i + 1].e = "chainSettle"
               /\ log[i + 1].run = r /\ log[i + 1].attr = attr
               /\ log[i + 1].out = "rejected"
               /\ log[i + 1].msg = validator.msg
               /\ hasOwnProperty(runs[r].invalidAttrs, attr)
               /\ get(runs[r].invalidAttrs, attr) = validator.msg
               /\ ~runs[r].isValid
               /\ i + 2 \in Events
               /\ log[i + 2].run = r /\ log[i + 2].turn = log[i].turn
               /\ IF at < Len(paths)
                  THEN log[i + 2].e = "chainStart" /\ log[i + 2].attr = paths[at + 1]
                  ELSE log[i + 2].e = "runSettle"

\* the call of a descriptor of an unknown kind raised an error on the first
\* attribute, whose declaration gives a message, and the chain of the second
\* attribute was run after it
C14_Witness ==
    \E i \in Events :
        /\ log[i].e = "throw"
        /\ log[i].attr = AttrNames[1]
        /\ get(runs[log[i].run].invalidAttrs, AttrNames[1]) = Message
        /\ Of("chainSettle", log[i].run, AttrNames[2]) # {}
        /\ validation = Obj(<< <<AttrNames[1], IsUnknown>>, <<AttrNames[2], IsRequired>> >>)

-----------------------------------------------------------------------------
(* C15.  For an attribute path with no descriptor (no rule declared for    *)
(* it, an empty rule, or an entity without rule declarations) preValidate  *)
(* passes for every value: the chain settles as passed in the turn of the  *)
(* call, and no validator is invoked.                                      *)
C15_NoDescriptorPasses ==
    \A r \in Calls("preValidate") :
        Len(getValidators(Model, runs[r].attr)) = 0 =>
            /\ runs[r].status = "done"
            /\ runs[r].result = "resolved"
            /\ OfRun("invoke", r) = {}
            /\ OfRun("fault", r) = {}
            /\ \E i \in OfRun("chainStart", r), j \in OfRun("chainSettle", r) :
                  /\ log[j].out = "resolved"
                  /\ log[j].turn = log[i].turn

\* preValidate of a blank string for an attribute without a rule, on an entity
\* that requires its other attribute, has passed
C15_Witness ==
    \E r \in Calls("preValidate") :
        /\ runs[r].attr = AttrNames[2]
        /\ runs[r].value = Str(<<Blank>>)
        /\ validation = Obj(<< <<AttrNames[1], Obj(<< <<"required", Bool(TRUE)>> >>)>> >>)
        /\ runs[r].result = "resolved"

-----------------------------------------------------------------------------
(* C16.  During validate(proposed) the context given to the validators     *)
(* holds, for every attribute, its proposed value when one is proposed and *)
(* its stored value otherwise; equalTo passes exactly when the value under *)
(* validation is the value the context holds for the named attribute, so   *)
(* that two attributes proposed together with the same value pass whatever *)
(* the stored values are.                                                  *)

\* the value validate(attrs) of run r works with for the attribute
Proposed(r, name) ==
    IF runs[r].attrs.t = "object" /\ hasOwnProperty(runs[r].attrs.p, name)
    THEN get(runs[r].attrs.p, name)
    ELSE get(attributes, name)

C16_ProposedContext ==
    \A r \in Calls("validate") :
        /\ \A n \in DOMAIN AttrNames :
              get(runs[r].computed, AttrNames[n]) = Proposed(r, AttrNames[n])
        /\ \A i \in OfRun("settle", r) :
              LET validator == log[LastInvoke(r, log[i].attr, i)].msg
              IN (isFunction(validator.fn) /\ validator.fn.f = "equalTo") =>
                    ((log[i].out = "resolved") <=>
                        (Proposed(r, log[i].attr) = Proposed(r, join(validator.val.s))))

\* both attributes are stored as 'x' and proposed as '', and equalTo has passed
C16_Witness ==
    \E i \in Events :
        /\ log[i].e = "settle" /\ log[i].out = "resolved"
        /\ log[LastInvoke(log[i].run, log[i].attr, i)].msg.fn = Fun("equalTo")
        /\ runs[log[i].run].attrs.t = "object"
        /\ \A n \in DOMAIN AttrNames :
              /\ get(runs[log[i].run].attrs.p, AttrNames[n]) = Str(<<>>)
              /\ get(attributes, AttrNames[n]) = Str(<<"x">>)

-----------------------------------------------------------------------------
(* C17.  Two runs of validate with the same argument, the second called    *)
(* after the first has settled, settle with the same invalidAttrs and the  *)
(* same isValid when the validators are deterministic, that is when the    *)
(* custom validators do in the second run what they did in the first; the  *)
(* stored attributes do not change between calls.                          *)

\* the custom validator of the descriptor invoked before event i
IsCustomEvent(i) ==
    log[LastInvoke(log[i].run, log[i].attr, i + 1)].msg.fn = Fun("fn")

\* what the custom validators of run r did: passed, failed or threw, for
\* each attribute and descriptor
Outcomes(r) ==
    {<<log[i].attr, log[i].k, log[i].e, log[i].out>> :
        i \in {j \in OfRun("settle", r) \cup OfRun("throw", r) : IsCustomEvent(j)}}

\* run q was called after run r had settled
CalledAfter(q, r) ==
    \E i \in OfRun("runSettle", r) : \A j \in Events : log[j].run = q => j > i

C17_Idempotent ==
    \A r \in Calls("validate"), q \in Calls("validate") :
        (/\ runs[r].status = "done" /\ runs[q].status = "done"
         /\ runs[r].attrs = runs[q].attrs
         /\ CalledAfter(q, r)
         /\ Outcomes(r) = Outcomes(q)) =>
            /\ runs[q].invalidAttrs = runs[r].invalidAttrs
            /\ runs[q].isValid = runs[r].isValid

\* a second run of validate with the argument of the first has settled as
\* the first did, with a failed custom validator and a failed required
\* attribute in both
C17_Witness ==
    \E r \in Calls("validate"), q \in Calls("validate") :
        /\ runs[r].status = "done" /\ runs[q].status = "done"
        /\ CalledAfter(q, r)
        /\ runs[r].attrs = runs[q].attrs
        /\ Outcomes(r) = Outcomes(q)
        /\ Outcomes(r) # {}
        /\ Len(runs[q].invalidAttrs) = 2

-----------------------------------------------------------------------------
(* C18.  A call of isValid returns in the turn of the call and raises no   *)
(* error.  With a path, or a list of paths, of attributes whose            *)
(* descriptors are all of built in kinds it returns true when the stored   *)
(* value of the attribute (of every listed attribute) passes all of its    *)
(* descriptors and false otherwise; with no argument it returns true on an *)
(* entity without rules and otherwise the flag stored by the validate run  *)
(* that settled last, when there is one; with true it starts a run of      *)
(* validate() and then returns the stored flag.                            *)

\* what the built in validator of a descriptor does with the stored value
BuiltIn(validator, attr) ==
    LET value == get(flatten(attributes, <<>>, ""), attr)
    IN CASE validator.fn = Fun("required") ->
                required(value, attr, validator.val, Model, attributes)
         [] validator.fn = Fun("equalTo") ->
                equalTo(value, attr, validator.val, Model, attributes)

\* the descriptors of the path are of the kinds BuiltIn knows
AllBuiltIn(attr) ==
    \A k \in DOMAIN getValidators(Model, attr) :
        getValidators(Model, attr)[k].fn \in {Fun("required"), Fun("equalTo")}

\* the stored value of the path passes all descriptors of the path
PassesNow(attr) ==
    \A k \in DOMAIN getValidators(Model, attr) :
        BuiltIn(getValidators(Model, attr)[k], attr).b = "resolve"

\* the paths isValid is asked about
PathsAsked(option) ==
    IF isString(option) THEN {join(option.s)}
    ELSE {join(option.a[n].s) : n \in DOMAIN option.a}

\* the flag stored when event j was logged
StoredFlag(j) ==
    LET stores == {i \in Before(Events, j) : log[i].e = "isValid"}
    IN IF stores = {} THEN Undefined
       ELSE log[CHOOSE i \in stores : \A h \in stores : h <= i].msg

C18_Snapshot ==
    \A i \in Events :
        log[i].e = "call" =>
            LET r == log[i].run
                option == log[i].msg
            IN /\ OfRun("fault", r) = {}
               /\ \E j \in OfRun("answer", r) : log[j].turn = log[i].turn
               /\ \A j \in OfRun("answer", r) :
                     CASE isString(option) \/ option.t = "array" ->
                            (\A attr \in PathsAsked(option) : AllBuiltIn(attr)) =>
                                log[j].msg =
                                    Bool(\A attr \in PathsAsked(option) : PassesNow(attr))
                       [] option = Bool(TRUE) ->
                            /\ OfRun("chainStart", r) # {}
                            /\ log[j].msg = StoredFlag(j)
                       [] OTHER ->
                            IF ~truthy(validation) THEN log[j].msg = Bool(TRUE)
                            ELSE StoredFlag(i) # Undefined => log[j].msg = StoredFlag(i)

-----------------------------------------------------------------------------
(* C19.  Runs of validate that overlap keep their own work queue, their    *)
(* own invalidAttrs and their own validity flag.  The chains a run starts  *)
(* are those of the paths of its own flattened map, in order; a chain of   *)
(* the run fails exactly when a validator invoked in that chain of that    *)
(* run fails or raises an error; and a run settles with the attributes of  *)
(* its own failed chains as the keys of invalidAttrs, each with the        *)
(* message of that chain, and with isValid true exactly when none of its   *)
(* chains failed, whatever the other runs do in between.                   *)

\* the attributes of the chains run r has started, in the order of the log
Started(r) ==
    LET IsStart(event) == event.e = "chainStart" /\ event.run = r
        starts == SelectSeq(log, IsStart)
    IN [n \in DOMAIN starts |-> starts[n].attr]

C19_IndependentRuns ==
    \A r \in Calls("validate") :
        LET paths == keys(runs[r].flattened)
            started == Started(r)
            failed == Failed(r)
        IN /\ Len(started) <= Len(paths)
           /\ started = SubSeq(paths, 1, Len(started))
           /\ \A j \in OfRun("chainSettle", r) :
                 (log[j].out = "rejected") <=>
                    \E i \in Before(Events, j) :
                        /\ log[i].run = r /\ log[i].attr = log[j].attr
                        /\ \/ log[i].e = "throw"
                           \/ log[i].e = "settle" /\ log[i].out = "rejected"
           /\ runs[r].status = "done" =>
                 /\ started = paths
                 /\ Range(keys(runs[r].invalidAttrs)) = failed
                 /\ \A j \in OfRun("chainSettle", r) :
                       log[j].out = "rejected" =>
                          get(runs[r].invalidAttrs, log[j].attr) = log[j].msg
                 /\ runs[r].isValid <=> (failed = {})
                 /\ \A j \in OfRun("runSettle", r) :
                       log[j].msg = Bool(failed = {})

\* a second run was called while the first waited for a validator and
\* settled as invalid; then the first settled as valid
C19_Witness ==
    \E r \in Calls("validate"), q \in Calls("validate") :
        /\ r < q
        /\ runs[r].status = "done" /\ runs[q].status = "done"
        /\ \E i \in OfRun("runSettle", q), j \in OfRun("runSettle", r) :
              /\ i < j
              /\ \E h \in OfRun("chainStart", r) : h < i
        /\ ~runs[q].isValid
        /\ runs[r].isValid

-----------------------------------------------------------------------------
(* C20.  While a validator that a run has invoked has not settled its      *)
(* result handle, the run stands still: nothing of the run happens after   *)
(* that invocation, so no later descriptor is invoked and no chain of a    *)
(* later attribute is started; the run has not settled, it has not stored  *)
(* a validity flag, none of its valid or invalid callbacks has run, its    *)
(* notification is neither queued nor dispatched, and the promise of the   *)
(* call is pending.  A validator that never settles leaves the run so for  *)
(* ever: there is no timeout and no cancellation.                          *)

\* the invocations of run r whose result handle is not settled
Pending(r) ==
    {i \in OfRun("invoke", r) :
        ~\E j \in After(OfRun("settle", r) \cup OfRun("throw", r), i) :
            log[j].attr = log[i].attr /\ log[j].k = log[i].k}

C20_Stalled ==
    \A r \in Calls("validate") :
        \A i \in Pending(r) :
            /\ \A j \in After(Events, i) : log[j].run # r
            /\ \A e \in {"runSettle", "isValid", "valid", "invalid", "trigger", "promise"} :
                  OfRun(e, r) = {}
            /\ \A k \in DOMAIN timers : timers[k].run # r
            /\ runs[r].masterDeferred = "pending"
            /\ runs[r].deferred = "pending"
            /\ Calls("validate") = {r} => _isValid = Undefined

\* the first of two descriptors of the first of two attributes has been
\* invoked and has not settled
C20_Witness ==
    \E r \in Calls("validate") :
        \E i \in Pending(r) :
            /\ log[i].k = 1
            /\ Len(getValidators(Model, log[i].attr)) = 2
            /\ Len(runs[r].flattened) = 2
            /\ log[i].attr = keys(runs[r].flattened)[1]

-----------------------------------------------------------------------------
(* C21.  getValidators always returns a list.  A declaration that is a     *)
(* function or a string gives exactly one descriptor, of kind fn, with the *)
(* declaration as its parameter; a mapping gives one descriptor for every  *)
(* key other than msg, in the order of the keys, each with the msg of the  *)
(* mapping; a list of mappings gives the descriptors of its entries one    *)
(* after the other in the order of the list; an absent declaration gives   *)
(* the empty list; and a key that names no validator of the library still  *)
(* gives a descriptor, one without function.                               *)

\* the descriptors a mapping stands for
OfMapping(mapping) ==
    LET NotMsg(pair) == pair[1] # "msg"
        entries == SelectSeq(mapping.p, NotMsg)
        shared == IF \E n \in DOMAIN mapping.p : mapping.p[n][1] = "msg"
                  THEN mapping.p[CHOOSE n \in DOMAIN mapping.p : mapping.p[n][1] = "msg"][2]
                  ELSE Undefined
    IN [n \in DOMAIN entries |->
          [fn |-> IF entries[n][1] \in ValidatorNames THEN Fun(entries[n][1])
                  ELSE Undefined,
           val |-> entries[n][2],
           msg |-> shared]]

\* the descriptors of the first n entries of a list of mappings
RECURSIVE OfList(_, _)
OfList(list, n) ==
    IF n = 0 THEN <<>> ELSE OfList(list, n - 1) \o OfMapping(list[n])

\* the descriptors the declaration of the attribute stands for
Normalised(attr) ==
    IF validation = Undefined \/ ~hasOwnProperty(validation.p, attr) THEN <<>>
    ELSE LET declared == get(validation.p, attr)
         IN CASE declared.t \in {"function", "string"} ->
                    <<[fn |-> Fun("fn"), val |-> declared, msg |-> Undefined]>>
              [] declared.t = "array" -> OfList(declared.a, Len(declared.a))
              [] OTHER -> OfMapping(declared)

C21_Normalizer ==
    \A n \in DOMAIN AttrNames :
        LET validators == getValidators(Model, AttrNames[n])
        IN /\ DOMAIN validators = 1..Len(validators)
           /\ validators = Normalised(AttrNames[n])

\* preValidate has invoked a descriptor without function, the second of a
\* mapping that has a msg key, and its chain failed with that message
C21_Witness ==
    \E i \in Events :
        /\ log[i].e = "invoke" /\ log[i].k = 2
        /\ log[i].msg.fn = Undefined
        /\ log[i].msg.msg = Message
        /\ Len(getValidators(Model, log[i].attr)) = 2
        /\ Len(get(validation.p, log[i].attr).p) = 3

-----------------------------------------------------------------------------
(* C22.  flatten recurses into nested plain containers, objects and        *)
(* arrays, and every leaf appears exactly once, under its dotted path, in  *)
(* the order in which it is met; a date, a pattern, an entity or a         *)
(* collection is one leaf under its own path and is never split; null and  *)
(* the values that are no objects are leaves.                              *)

\* the leaves of the <<key, value>> pairs with their paths, in the order in
\* which they are met
RECURSIVE LeavesOf(_, _)
LeavesOf(pairs, prefix) ==
    IF pairs = <<>> THEN <<>>
    ELSE LET key == Head(pairs)[1]
             val == Head(pairs)[2]
         IN (IF val.t \in {"object", "array"}
             THEN LeavesOf(eachOf(val), prefix \o key \o ".")
             ELSE << <<prefix \o key, val>> >>)
            \o LeavesOf(Tail(pairs), prefix)

C22_Flattener ==
    \A r \in Calls("validate") :
        LET flattened == runs[r].flattened
        IN /\ flattened = LeavesOf(Merged(r), "")
           /\ \A m \in DOMAIN flattened, n \in DOMAIN flattened :
                 flattened[m][1] = flattened[n][1] => m = n
           /\ \A n \in DOMAIN flattened : flattened[n][2].t \notin {"object", "array"}
           /\ \A n \in DOMAIN Merged(r) :
                 Merged(r)[n][2].t \in {"date", "regexp", "model", "collection", "null"} =>
                    get(flattened, Merged(r)[n][1]) = Merged(r)[n][2]

\* validate has flattened an object of two keys, the second an array that
\* holds a collection
C22_Witness ==
    \E r \in Calls("validate") :
        /\ get(attributes, AttrNames[1]) =
              Obj(<< <<"x", Str(<<"x">>)>>, <<"y", Arr(<<ACollection>>)>> >>)
        /\ keys(runs[r].flattened) = <<"a.x", "a.y.0">>

-----------------------------------------------------------------------------
(* C23.  A validated attribute whose value in the run, stored or proposed, *)
(* is a plain container, an object or an array, has no entry under its own *)
(* path in the flattened map of the run, and an empty container adds no    *)
(* entry at all; the descriptors declared for the attribute are never      *)
(* invoked in the run, the attribute is never in invalidAttrs, and the run *)
(* of validate announces the attribute with the valid callback and not     *)
(* with the invalid one.                                                   *)
C23_ContainerAttribute ==
    \A r \in Calls("validate") :
        \A n \in DOMAIN runs[r].validatedAttrs :
            LET attr == runs[r].validatedAttrs[n][1]
                val == get(Merged(r), attr)
                Other(pair) == pair[1] # attr
            IN val.t \in {"object", "array"} =>
                  /\ ~hasOwnProperty(runs[r].flattened, attr)
                  /\ eachOf(val) = <<>> =>
                        runs[r].flattened = LeavesOf(SelectSeq(Merged(r), Other), "")
                  /\ Of("invoke", r, attr) = {}
                  /\ ~hasOwnProperty(runs[r].invalidAttrs, attr)
                  /\ Of("invalid", r, attr) = {}
                  /\ Pending(r) = {} => Cardinality(Of("valid", r, attr)) = 1

-----------------------------------------------------------------------------
(* C24.  The promise of a run of validate that has settled is resolved     *)
(* exactly when the run's isValid is true; it is rejected exactly when     *)
(* isValid is false and forceUpdate is set or no invalid attribute is in   *)
(* the flattened changed set (the proposed attributes, or all attributes   *)
(* when none is proposed); otherwise, with an invalid attribute in the     *)
(* changed set and forceUpdate not set, it stays pending.  It is never     *)
(* resolved while an attribute is invalid, and it is settled at most once. *)

\* the flattened changed set of run r: attrs || allAttrs, flattened
ChangedSet(r) ==
    Range(keys(IF runs[r].attrs.t = "object"
               THEN LeavesOf(runs[r].attrs.p, "")
               ELSE LeavesOf(Merged(r), "")))

-----------------------------------------------------------------------------
(* C25.  A run of validate settles once its validators have settled,       *)
(* whatever the attribute set: a run none of whose invoked validators is   *)
(* outstanding has settled without a fault reaching the caller, and a run  *)
(* whose merged attribute set flattens to no path at all settles as valid  *)
(* with an empty invalidAttrs.                                             *)

\* a run that raised no fault and waits for no validator has settled, once
SettlesOrWaits(r) ==
    (Pending(r) = {} /\ OfRun("fault", r) = {}) =>
        /\ runs[r].status = "done"
        /\ Cardinality(OfRun("runSettle", r)) = 1

C25_EmptyRunSettles ==
    \A r \in Calls("validate") :
        /\ SettlesOrWaits(r)
        /\ LeavesOf(Merged(r), "") = <<>> =>
              /\ OfRun("fault", r) = {}
              /\ runs[r].status = "done"
              /\ runs[r].isValid
              /\ runs[r].invalidAttrs = <<>>

-----------------------------------------------------------------------------
(* C26.  The stored validity flag _isValid is written only when a run of   *)
(* validate settles, and with that run's isValid: it is undefined until a  *)
(* run has settled, each write directly follows the settlement of the run  *)
(* that makes it, once per run, and the flag always is the isValid of the  *)
(* run that settled last, which of two overlapping runs may be the one     *)
(* started first.                                                          *)

\* the settlements of all runs, in the order they happened
Settlements ==
    LET IsSettle(event) == event.e = "runSettle"
    IN SelectSeq(log, IsSettle)

\* the writes of the flag, in the order they happened
FlagWrites ==
    LET IsWrite(event) == event.e = "isValid"
    IN SelectSeq(log, IsWrite)

C26_LastSettledWins ==
    LET settlements == Settlements
        writes == FlagWrites
    IN /\ settlements = <<>> => _isValid = Undefined
       /\ settlements # <<>> =>
             _isValid = Bool(runs[settlements[Len(settlements)].run].isValid)
       /\ Len(writes) = Len(settlements)
       /\ \A n \in DOMAIN writes :
             /\ writes[n].run = settlements[n].run
             /\ writes[n].turn = settlements[n].turn
             /\ writes[n].msg = Bool(runs[writes[n].run].isValid)
             /\ \A m \in DOMAIN writes : writes[m].run = writes[n].run => m = n
       /\ \A i \in Events :
             log[i].e = "isValid" => (i > 1 /\ log[i - 1].e = "runSettle")

\* of two overlapping runs the one started second has settled first, as
\* valid, the one started first has settled after it, as invalid, and the
\* stored flag is false
C26_Witness ==
    \E r \in Calls("validate"), q \in Calls("validate") :
        /\ r < q
        /\ runs[r].status = "done" /\ runs[q].status = "done"
        /\ \E i \in OfRun("runSettle", q), j \in OfRun("runSettle", r) :
              /\ i < j
              /\ \E h \in OfRun("chainStart", r) : h < i
        /\ runs[q].isValid
        /\ ~runs[r].isValid
        /\ _isValid = Bool(FALSE)

====
